---- MODULE Spec2Model ----
(***************************************************************************)
(* Dialogue engine of the car-selling Telegram bot (app/bot.py).           *)
(*                                                                         *)
(* The session context is context.user_data, one dictionary per chat       *)
(* participant.  One turn is one call of Bot.process.  Every helper that   *)
(* draws from random.* is modelled as the SET of its possible outcomes;    *)
(* the handlers pick one outcome with \E.                                  *)
(*                                                                         *)
(* Spec and ContextSpec take one handler as one step.  AsyncSpec takes the *)
(* handlers as the coroutines they are: two updates of the participant may *)
(* be in flight, a coroutine runs until it awaits, and `loop` holds the    *)
(* event loop: who runs, where each coroutine stands, who wrote last.      *)
(*                                                                         *)
(* A user utterance ("replica") is modelled by what the text-analysis      *)
(* helpers of utils.py compute from it: the record holds one field per     *)
(* helper, and each helper is the projection on its field.                 *)
(***************************************************************************)
EXTENDS Integers, Sequences, FiniteSets, TLC

VARIABLES user_data, turn, loop

vars == <<user_data, turn, loop>>

(***************************************************************************)
(* Bounds of the model                                                     *)
(***************************************************************************)
\* Number of completed Bot.process calls per session that the model follows:
\* the stats counters of a session sum to at most this.  A call that raises
\* counts nothing and is followed at any count.
MaxTurns == 2

\* The value given to CONFIG['history_limit'].
HistoryLimit == 1

\* Number of completed Bot.process calls that the specification of the
\* context-based vehicle resolution follows.
MaxContextTurns == 3

\* Number of completed Bot.process calls that the specification of the
\* handlers as coroutines follows.
MaxAsyncTurns == 2

(***************************************************************************)
(* Python values                                                           *)
(***************************************************************************)
\* Python's None for string-valued slots.
None == "None"
\* A key that is not (yet) in context.user_data.
Missing == "Missing"
\* extract_price returns None or an integer > 0; both None and 0 are falsy
\* in every test the code makes (`if price`, `not price`).
NoPrice == 0

(***************************************************************************)
(* Enumerations                                                            *)
(***************************************************************************)
BotState == {"NONE", "WAITING_FOR_CAR", "WAITING_FOR_INTENT"}

Intent ==
  {"hello", "bye", "yes", "no", "car_types", "car_price", "car_availability",
   "car_recommendation", "filter_cars", "car_info", "book_test_drive",
   "compare_cars"}

ResponseType == {"intent", "generate", "failure"}

\* The four intents that need a concrete vehicle.
CarIntents == {"car_price", "car_availability", "car_info", "book_test_drive"}

Sentiments == {"neutral", "positive", "negative"}

(***************************************************************************)
(* CONFIG: the static catalog                                              *)
(***************************************************************************)
\* CONFIG['cars']: two vehicles, A (1000000, sedan) and B (2000000, suv).
CarNames == {"A", "B"}

CONFIG_cars ==
  [c \in CarNames |->
     IF c = "A" THEN [price |-> 1000000, categories |-> {"sedan"}]
                ELSE [price |-> 2000000, categories |-> {"suv"}]]

\* Iteration order of CONFIG['cars'] (a dict keeps insertion order).
CarOrder == <<"A", "B">>

\* Iteration order of CONFIG['intents'].
IntentOrder ==
  <<"hello", "bye", "yes", "no", "car_types", "car_price", "car_availability",
    "car_recommendation", "filter_cars", "car_info", "book_test_drive",
    "compare_cars">>

\* CONFIG['intents'][k]['responses'] is non-empty for every configured intent.
HasResponses(intent) == intent \in Intent

\* CONFIG['thresholds']['intent_score'], in percent.
IntentScore == 80

(***************************************************************************)
(* Utterances                                                              *)
(***************************************************************************)
\* Example-match ratios (fuzz.ratio, 0..100) of one text against the
\* example phrases of each intent, kept for the intents where the ratio is
\* not 0: here s for intent k.
Ratio(k, s) == [i \in {k} |-> s]

NoRatio == [i \in {} |-> 0]

Replica(m, n, c, p, pred, sc, s, d) ==
  [meaningful |-> m, car_name |-> n, car_category |-> c, price |-> p,
   lemma |-> m, predicted |-> pred, ratios |-> sc, sentiment |-> s,
   dialogue |-> d]

\* Noise: not meaningful.  Either nothing can be extracted, or the text is
\* too short to count as meaningful although it lemmatizes to something and
\* every helper finds its slot in it.
NoiseReplicas ==
  {Replica(FALSE, None, None, NoPrice, "hello", NoRatio, "neutral", None),
   [Replica(FALSE, "A", "sedan", 1500000, "car_price", Ratio("car_price", 100),
            "neutral", "plain") EXCEPT !.lemma = TRUE]}

\* Texts with a price ceiling, optionally with a category or a vehicle name,
\* or worded as a price question.
PriceReplicas ==
  {Replica(TRUE, None, None, p, "filter_cars", Ratio("filter_cars", 100), "neutral", None) :
     p \in {500000, 1500000, 2500000}}
  \cup
  {Replica(TRUE, n, c, 1500000, "filter_cars", Ratio("filter_cars", 100), "neutral", None) :
     n \in {None, "A"}, c \in {None, "sedan"}}
  \cup
  {Replica(TRUE, None, None, 1500000, "car_price", Ratio("car_price", 100), "neutral", None)}

\* Texts that match an example phrase of one intent and carry no slot.
IntentReplicas ==
  {Replica(TRUE, None, None, NoPrice, k, Ratio(k, 100), "neutral", None) :
     k \in Intent}

\* Texts naming a vehicle, alone or inside a price question.
NameReplicas ==
  {Replica(TRUE, n, None, NoPrice, "car_price", Ratio("car_price", s), "neutral", None) :
     n \in CarNames, s \in {0, 100}}

\* Texts carrying a category word, alone or inside a price question;
\* "cabrio" is a category word that no vehicle of the catalog has.
CategoryReplicas ==
  {Replica(TRUE, None, c, NoPrice, "car_price", Ratio("car_price", s), "neutral", None) :
     c \in {"sedan", "cabrio"}, s \in {0, 100}}

\* Texts with no slot whose best example ratio stays below the threshold:
\* small talk found in the dialogue corpus ("plain": the stored answer;
\* "marked": a stored answer that happens to contain 'dialogues.txt'), or
\* found nowhere.
OtherReplicas ==
  {Replica(TRUE, None, None, NoPrice, "hello", Ratio("hello", 70), "neutral", d) :
     d \in {None, "plain", "marked"}}

\* A text with a sentiment.
MoodReplicas ==
  {Replica(TRUE, None, None, NoPrice, "car_price", Ratio("car_price", 100), "negative", None)}

\* Texts equal, once lemmatized, to an example phrase of car_price (ratio
\* 100) and close to an example of an intent that comes earlier or later in
\* CONFIG['intents'], while the statistical model predicts a third intent.
\* An example phrase belongs to one intent only.
ExampleReplicas ==
  {Replica(TRUE, None, None, NoPrice, "bye", ratios, "neutral", None) :
     ratios \in {("hello" :> 90) @@ ("car_price" :> 100),
                 ("car_price" :> 100) @@ ("compare_cars" :> 90)}}

\* Texts that are not meaningful although a vehicle name or a category word
\* is found in them (a single word is below the minimum token count).
ShortReplicas ==
  {[Replica(FALSE, n, c, NoPrice, "hello", NoRatio, "neutral", None)
      EXCEPT !.lemma = TRUE] :
     <<n, c>> \in {<<"A", None>>, <<"B", None>>, <<None, "sedan">>}}

\* The texts of the dialogues in which a vehicle is looked up in the context.
ContextReplicas ==
  {Replica(TRUE, None, None, NoPrice, k, Ratio(k, 100), "neutral", None) :
     k \in {"hello", "car_types", "car_price", "no"}}
  \cup ShortReplicas
  \cup {Replica(TRUE, None, c, NoPrice, "car_price", Ratio("car_price", 100), "neutral", None) :
          c \in {"sedan", "cabrio"}}
  \cup {Replica(TRUE, "A", None, NoPrice, "car_price", Ratio("car_price", 0), "neutral", None),
        Replica(TRUE, None, None, NoPrice, "hello", Ratio("hello", 70), "neutral", "plain")}

Replicas ==
  NoiseReplicas \cup PriceReplicas \cup IntentReplicas \cup NameReplicas
    \cup CategoryReplicas \cup OtherReplicas \cup MoodReplicas
    \cup ExampleReplicas

(***************************************************************************)
(* utils.py: text analysis                                                 *)
(***************************************************************************)
is_meaningful_text(replica) == replica.meaningful

extract_car_name(replica) == replica.car_name

extract_car_category(replica) == replica.car_category

extract_price(replica) == replica.price

analyze_sentiment(replica) == replica.sentiment

\* TRUE iff lemmatize_phrase(replica) is a non-empty string.
lemmatize_phrase(replica) == replica.lemma

(***************************************************************************)
(* Replies                                                                 *)
(***************************************************************************)
\* A reply text is modelled by what it is made of: the phrase it was built
\* from (kind), the vehicles it names (cars), the price and the category
\* written into it, the sentiment suffix appended to it, the vehicle of an
\* upsell mention ' Кстати, у нас есть {ad_car}' (ad, None without one) and
\* whether the text contains the substring 'dialogues.txt' (marked).
Reply(kind, cars, price, category, suffix) ==
  [kind |-> kind, cars |-> cars, price |-> price, category |-> category,
   suffix |-> suffix, ad |-> None, marked |-> FALSE]

\* Python's None where a reply is expected.
NoAnswer == Reply("None", {}, NoPrice, None, "neutral")

\* `'Кстати, у нас есть' in answer`
has_upsell(answer) == answer.ad # None

\* extract_car_name applied to a reply of the bot: the first vehicle, in
\* catalog order, among those the text names.
RECURSIVE first_named(_, _)
first_named(i, named) ==
  IF i > Len(CarOrder) THEN None
  ELSE IF CarOrder[i] \in named THEN CarOrder[i]
  ELSE first_named(i + 1, named)

extract_car_name_of_answer(answer) ==
  first_named(1, answer.cars \cup ({answer.ad} \ {None}))

(***************************************************************************)
(* Bot.classify_intent                                                     *)
(***************************************************************************)
\* The loop over CONFIG['intents'].items(): the intents are visited in
\* CONFIG order; an intent whose examples score 0 never passes the test of
\* line 99, so the loop is run over the others, in the same order.
\* Yields [score, intent] after the entries i..n of `order`.
RECURSIVE best_example(_, _, _, _, _)
best_example(order, i, best_score, best_intent, ratios) ==
  IF i > Len(order) THEN [score |-> best_score, intent |-> best_intent]
  ELSE LET intent_key == order[i]
           match == ratios[intent_key]
       IN  IF match > best_score /\ match >= IntentScore
           THEN best_example(order, i + 1, match, intent_key, ratios)
           ELSE best_example(order, i + 1, best_score, best_intent, ratios)

\* A slip the properties must notice: the prediction of the statistical
\* model is preferred to the intent of the best example.
classify_intent_model_first(replica) ==
  IF ~lemmatize_phrase(replica) THEN None
  ELSE LET intent == replica.predicted
           ratios == replica.ratios
           scored(intent_key) == intent_key \in DOMAIN ratios
           best == best_example(SelectSeq(IntentOrder, scored), 1, 0, None, ratios)
       IN  IF best.score >= IntentScore
           THEN (IF intent # None THEN intent ELSE best.intent)
           ELSE None

classify_intent(replica) ==
  IF ~lemmatize_phrase(replica) THEN None
  ELSE LET intent == replica.predicted
           ratios == replica.ratios
           scored(intent_key) == intent_key \in DOMAIN ratios
           best == best_example(SelectSeq(IntentOrder, scored), 1, 0, None, ratios)
       IN  IF best.score >= IntentScore
           THEN (IF best.intent # None THEN best.intent ELSE intent)
           ELSE None

(***************************************************************************)
(* Session context                                                         *)
(***************************************************************************)
\* user_data.get('current_car'): None when the key is missing.
get_current_car(ud) ==
  IF ud.current_car = Missing THEN None ELSE ud.current_car

\* A slip the properties must notice: another default for a missing state.
get_state_waiting(ud) == IF ud.state = Missing THEN "WAITING_FOR_CAR" ELSE ud.state

\* user_data.get('state', BotState.NONE.value)
get_state(ud) == IF ud.state = Missing THEN "NONE" ELSE ud.state

\* history[-CONFIG['history_limit']:]
last_items(h, n) ==
  IF Len(h) <= n THEN h ELSE SubSeq(h, Len(h) - n + 1, Len(h))

\* A slip the properties must notice: the intent is stored without the test
\* of line 82.
update_context_always_intent(ud, replica, answer, intent) ==
  [ud EXCEPT
     !.state = IF @ = Missing THEN "NONE" ELSE @,
     !.current_car = IF @ = Missing THEN None ELSE @,
     !.history = last_items(Append(@, replica), HistoryLimit),
     !.last_bot_response = answer,
     !.last_intent = intent]

\* `if intent:` is false for None.
update_context(ud, replica, answer, intent) ==
  [ud EXCEPT
     !.state = IF @ = Missing THEN "NONE" ELSE @,
     !.current_car = IF @ = Missing THEN None ELSE @,
     !.history = last_items(Append(@, replica), HistoryLimit),
     !.last_bot_response = answer,
     !.last_intent = IF intent # None THEN intent ELSE @]

\* Stats.add(kind, ...): one more turn resolved as `kind`.
stats_add(ud, kind) == [ud EXCEPT !.stats[kind] = @ + 1]

\* What an operation of the bot yields: the context as it left it and either
\* the value it returned or the exception it raised.
Out(ud, answer) == [ud |-> ud, answer |-> answer, raised |-> None]

Raise(ud, exception) == [ud |-> ud, answer |-> NoAnswer, raised |-> exception]

(***************************************************************************)
(* Bot._get_car_response                                                   *)
(***************************************************************************)
get_car_response(intent, car_name, replica) ==
  IF car_name \notin CarNames
  THEN Reply("no_such_car", {}, NoPrice, None, "neutral")
  ELSE Reply(intent, {car_name}, CONFIG_cars[car_name].price, None,
             analyze_sentiment(replica))

(***************************************************************************)
(* Bot._find_car_by_context                                                *)
(***************************************************************************)
\* A slip the properties must notice: the category is kept where its
\* vehicles are meant.
cars_of_category_unresolved(car_category) ==
  IF \E car \in CarNames : car_category \in CONFIG_cars[car].categories
  THEN {car_category} ELSE {}

cars_of_category(car_category) ==
  {car \in CarNames : car_category \in CONFIG_cars[car].categories}

\* random.choice(suitable_cars) if suitable_cars else None
choice_or_none(suitable_cars) ==
  IF suitable_cars = {} THEN {None} ELSE suitable_cars

\* The scan of history[::-1] from position i down to 1.
RECURSIVE scan_history(_, _)
scan_history(history, i) ==
  IF i = 0 THEN {None}
  ELSE LET hist_car == extract_car_name(history[i])
           hist_category == extract_car_category(history[i])
       IN  IF hist_car # None THEN {hist_car}
           ELSE IF hist_category # None /\ cars_of_category(hist_category) # {}
                THEN cars_of_category(hist_category)
                ELSE scan_history(history, i - 1)

\* A slip the properties must notice: the history is scanned before the
\* previous reply is looked at.
find_car_by_context_history_first(replica, ud) ==
  LET last_response == ud.last_bot_response
      last_intent == ud.last_intent
      car_category == extract_car_category(replica)
  IN  IF last_intent = "car_types"
      THEN scan_history(ud.history, Len(ud.history))
      ELSE IF last_response # NoAnswer /\ has_upsell(last_response)
           THEN {extract_car_name_of_answer(last_response)}
           ELSE IF car_category # None
                THEN choice_or_none(cars_of_category(car_category))
                ELSE {None}

find_car_by_context(replica, ud) ==
  LET last_response == ud.last_bot_response
      last_intent == ud.last_intent
      car_category == extract_car_category(replica)
  IN  IF last_response # NoAnswer /\ has_upsell(last_response)
      THEN {extract_car_name_of_answer(last_response)}
      ELSE IF car_category # None
           THEN choice_or_none(cars_of_category(car_category))
           ELSE IF last_intent = "car_types"
                THEN scan_history(ud.history, Len(ud.history))
                ELSE {None}

(***************************************************************************)
(* Bot._handle_filter_cars                                                 *)
(***************************************************************************)
recent_cars(ud) == {extract_car_name(ud.history[i]) : i \in 1..Len(ud.history)}

\* A slip the properties must notice: the price test the wrong way round.
filter_suitable_cars_above(price, car_category, ud) ==
  {car \in CarNames :
     /\ (price = NoPrice \/ CONFIG_cars[car].price >= price)
     /\ (car_category = None \/ car_category \in CONFIG_cars[car].categories)}
  \ recent_cars(ud)

\* A slip the properties must notice: the vehicles named in the history are
\* not taken out.
filter_suitable_cars_keep_recent(price, car_category, ud) ==
  {car \in CarNames :
     /\ (price = NoPrice \/ CONFIG_cars[car].price <= price)
     /\ (car_category = None \/ car_category \in CONFIG_cars[car].categories)}

filter_suitable_cars(price, car_category, ud) ==
  {car \in CarNames :
     /\ (price = NoPrice \/ CONFIG_cars[car].price <= price)
     /\ (car_category = None \/ car_category \in CONFIG_cars[car].categories)}
  \ recent_cars(ud)

\* A slip the properties must notice: the recommendation moves the state
\* without keeping the vehicle.
handle_filter_cars_state_only(price, car_category, ud) ==
  LET suitable_cars == filter_suitable_cars(price, car_category, ud)
  IN  IF suitable_cars = {}
      THEN {Out(ud, Reply("filter_none", {}, price, car_category, "neutral"))}
      ELSE IF price = NoPrice /\ car_category = None
           THEN {Out([ud EXCEPT !.state = "WAITING_FOR_INTENT"],
                     Reply("recommend", {car_name}, NoPrice, None, "neutral")) :
                   car_name \in suitable_cars}
           ELSE {Out(ud, Reply("filter_list", suitable_cars, NoPrice, None,
                               "neutral"))}

\* A slip the properties must notice: a single match is kept as current
\* vehicle whatever the state.
handle_filter_cars_keeps_match(price, car_category, ud) ==
  LET suitable_cars == filter_suitable_cars(price, car_category, ud)
  IN  IF suitable_cars = {}
      THEN {Out(ud, Reply("filter_none", {}, price, car_category, "neutral"))}
      ELSE IF price = NoPrice /\ car_category = None
           THEN {Out([ud EXCEPT !.current_car = car_name,
                                !.state = "WAITING_FOR_INTENT"],
                     Reply("recommend", {car_name}, NoPrice, None, "neutral")) :
                   car_name \in suitable_cars}
           ELSE {Out([ud EXCEPT !.current_car = car_name],
                     Reply("filter_list", suitable_cars, NoPrice, None, "neutral")) :
                   car_name \in suitable_cars}

handle_filter_cars(price, car_category, ud) ==
  LET suitable_cars == filter_suitable_cars(price, car_category, ud)
  IN  IF suitable_cars = {}
      THEN {Out(ud, Reply("filter_none", {}, price, car_category, "neutral"))}
      ELSE IF price = NoPrice /\ car_category = None
           THEN {Out([ud EXCEPT !.current_car = car_name,
                                !.state = "WAITING_FOR_INTENT"],
                     Reply("recommend", {car_name}, NoPrice, None, "neutral")) :
                   car_name \in suitable_cars}
           ELSE {Out(ud, Reply("filter_list", suitable_cars, NoPrice, None,
                               "neutral"))}

(***************************************************************************)
(* Bot.get_answer_by_intent                                                *)
(***************************************************************************)
Min(a, b) == IF a < b THEN a ELSE b

\* random.sample(list(CONFIG['cars'].keys()), min(2, len(CONFIG['cars'])))
sample_cars ==
  {S \in SUBSET CarNames : Cardinality(S) = Min(2, Cardinality(CarNames))}

\* The branch `elif intent == Intent.YES.value`: the answer by last_intent.
answer_yes(car_name, last_intent, suffix, ud) ==
  IF last_intent = "hello"
  THEN {Out(ud, Reply("yes_hello", {}, NoPrice, None, suffix))}
  ELSE IF last_intent \in CarIntents
  THEN IF car_name # None
       THEN IF car_name \in CarNames
            THEN {Out(ud, Reply("yes_price", {car_name},
                                CONFIG_cars[car_name].price, None, suffix))}
            ELSE {Raise(ud, "KeyError")}
       ELSE {Out(ud, Reply("yes_name_car", {}, NoPrice, None, suffix))}
  ELSE IF last_intent = "car_types"
  THEN {Out(ud, Reply("yes_car_types", cars, NoPrice, None, suffix)) :
          cars \in sample_cars}
  ELSE IF last_intent = "offtopic"
  THEN {Out(ud, Reply("yes_offtopic", {}, NoPrice, None, suffix))}
  ELSE {Out(ud, Reply("yes_other", {}, NoPrice, None, suffix))}

\* Lines 208-254: the answer of every intent that is not vehicle-specific and
\* did not return early.
answer_by_branch(intent, car_name, last_intent, car_category, price, suffix, ud) ==
  IF intent = "car_recommendation"
  THEN handle_filter_cars(NoPrice, car_category, ud)
  ELSE IF intent = "filter_cars"
  THEN handle_filter_cars(price, car_category, ud)
  ELSE IF intent = "car_types"
  THEN {Out([ud EXCEPT !.current_car = None],
            Reply("car_types", cars, NoPrice, None, suffix)) :
          cars \in sample_cars}
  ELSE IF intent = "compare_cars"
  THEN UNION {IF CarNames \ {car1} = {}
              THEN {Raise(ud, "IndexError")}
              ELSE {Out([ud EXCEPT !.current_car = car1],
                        Reply("compare_cars", {car1, car2}, NoPrice, None, suffix)) :
                      car2 \in CarNames \ {car1}} :
                car1 \in CarNames}
  ELSE IF intent = "yes"
  THEN answer_yes(car_name, last_intent, suffix, ud)
  ELSE IF intent = "no"
  THEN {Out([ud EXCEPT !.current_car = None, !.state = "NONE"],
            Reply("no", {}, NoPrice, None, suffix))}
  ELSE {Out(ud, Reply(intent, {}, NoPrice, None, "neutral"))}

\* Lines 256-258: `random.random() < 0.2` may or may not hold.
with_upsell(intent, car_name, o) ==
  IF o.raised = None /\ intent \in {"hello", "car_types"}
  THEN {o} \cup (IF CarNames \ {car_name} = {}
                 THEN {Raise(o.ud, "IndexError")}
                 ELSE {[o EXCEPT !.answer.ad = ad_car] :
                         ad_car \in CarNames \ {car_name}})
  ELSE {o}

\* Line 260: context.user_data['last_intent'] = intent
set_last_intent(intent, o) ==
  IF o.raised = None THEN [o EXCEPT !.ud.last_intent = intent] ELSE o

\* A slip the properties must notice: the question for the vehicle is asked
\* without waiting for the answer.
get_answer_by_intent_not_waiting(intent, replica, ud) ==
  LET car_name == get_current_car(ud)
      last_intent == ud.last_intent
      car_category == extract_car_category(replica)
      price == extract_price(replica)
      suffix == analyze_sentiment(replica)
  IN  IF intent \notin Intent \/ ~HasResponses(intent)
      THEN {Out(ud, NoAnswer)}
      ELSE IF intent \in CarIntents
      THEN IF car_name = None
           THEN {IF found # None
                 THEN Out([ud EXCEPT !.current_car = found,
                                     !.state = "WAITING_FOR_INTENT"],
                          Reply("offer_from_context", {found}, NoPrice,
                                car_category, suffix))
                 ELSE Out(ud, Reply("ask_car", {}, NoPrice, None, suffix)) :
                   found \in find_car_by_context(replica, ud)}
           ELSE {Out(ud, get_car_response(intent, car_name, replica))}
      ELSE IF intent = "filter_cars" /\ price = NoPrice /\ car_category = None
      THEN {Out(ud, Reply("filter_ask", {}, NoPrice, None, suffix))}
      ELSE {set_last_intent(intent, o2) :
              o2 \in UNION {with_upsell(intent, car_name, o1) :
                              o1 \in answer_by_branch(intent, car_name, last_intent,
                                                      car_category, price, suffix, ud)}}

\* A slip the properties must notice: the vehicle is looked up again although
\* a current vehicle exists.
get_answer_by_intent_asks_again(intent, replica, ud) ==
  LET car_name == get_current_car(ud)
      last_intent == ud.last_intent
      car_category == extract_car_category(replica)
      price == extract_price(replica)
      suffix == analyze_sentiment(replica)
  IN  IF intent \notin Intent \/ ~HasResponses(intent)
      THEN {Out(ud, NoAnswer)}
      ELSE IF intent \in CarIntents
      THEN {IF found # None
            THEN Out([ud EXCEPT !.current_car = found,
                                !.state = "WAITING_FOR_INTENT"],
                     Reply("offer_from_context", {found}, NoPrice,
                           car_category, suffix))
            ELSE Out([ud EXCEPT !.state = "WAITING_FOR_CAR"],
                     Reply("ask_car", {}, NoPrice, None, suffix)) :
              found \in find_car_by_context(replica, ud)}
      ELSE IF intent = "filter_cars" /\ price = NoPrice /\ car_category = None
      THEN {Out(ud, Reply("filter_ask", {}, NoPrice, None, suffix))}
      ELSE {set_last_intent(intent, o2) :
              o2 \in UNION {with_upsell(intent, car_name, o1) :
                              o1 \in answer_by_branch(intent, car_name, last_intent,
                                                      car_category, price, suffix, ud)}}

get_answer_by_intent(intent, replica, ud) ==
  LET car_name == get_current_car(ud)
      last_intent == ud.last_intent
      car_category == extract_car_category(replica)
      price == extract_price(replica)
      suffix == analyze_sentiment(replica)
  IN  IF intent \notin Intent \/ ~HasResponses(intent)
      THEN {Out(ud, NoAnswer)}
      ELSE IF intent \in CarIntents
      THEN IF car_name = None
           THEN {IF found # None
                 THEN Out([ud EXCEPT !.current_car = found,
                                     !.state = "WAITING_FOR_INTENT"],
                          Reply("offer_from_context", {found}, NoPrice,
                                car_category, suffix))
                 ELSE Out([ud EXCEPT !.state = "WAITING_FOR_CAR"],
                          Reply("ask_car", {}, NoPrice, None, suffix)) :
                   found \in find_car_by_context(replica, ud)}
           ELSE {Out(ud, get_car_response(intent, car_name, replica))}
      ELSE IF intent = "filter_cars" /\ price = NoPrice /\ car_category = None
      THEN {Out(ud, Reply("filter_ask", {}, NoPrice, None, suffix))}
      ELSE {set_last_intent(intent, o2) :
              o2 \in UNION {with_upsell(intent, car_name, o1) :
                              o1 \in answer_by_branch(intent, car_name, last_intent,
                                                      car_category, price, suffix, ud)}}

(***************************************************************************)
(* Bot.generate_answer, Bot.get_failure_phrase                             *)
(***************************************************************************)
\* replica.dialogue says whether the best corpus entry is similar enough
\* (similarities[best_idx] > CONFIG['thresholds']['dialogues_similarity']).
generate_answer(replica, ud) ==
  IF ~lemmatize_phrase(replica) \/ ~is_meaningful_text(replica)
  THEN {Out(ud, NoAnswer)}
  ELSE IF replica.dialogue # None
  THEN LET answer == [Reply("dialogue", {}, NoPrice, None, analyze_sentiment(replica))
                        EXCEPT !.marked = (replica.dialogue = "marked")]
           ud2 == [ud EXCEPT !.last_intent = "offtopic"]
       IN  {Out(ud2, answer)}
             \cup {Out(ud2, [answer EXCEPT !.ad = ad_car]) : ad_car \in CarNames}
  ELSE {Out(ud, NoAnswer)}

get_failure_phrase(replica) ==
  {Reply("failure", {car_name}, NoPrice, None, analyze_sentiment(replica)) :
     car_name \in CarNames}

(***************************************************************************)
(* Bot._process_none_state                                                 *)
(***************************************************************************)
\* `generate_answer(...) or get_failure_phrase(...)`
generate_or_failure(replica, ud) ==
  UNION {IF g.answer # NoAnswer THEN {g}
         ELSE {Out(g.ud, f) : f \in get_failure_phrase(replica)} :
           g \in generate_answer(replica, ud)}

\* A slip the properties must notice: the text is classified before a
\* vehicle name is looked for.
process_none_state_intent_first(replica, ud) ==
  LET car_name == extract_car_name(replica)
      car_category == extract_car_category(replica)
      intent == classify_intent(replica)
      suffix == analyze_sentiment(replica)
  IN  IF intent # None
      THEN get_answer_by_intent(intent, replica, ud)
      ELSE IF car_name # None
      THEN {Out([ud EXCEPT !.current_car = car_name,
                           !.state = "WAITING_FOR_INTENT"],
                Reply("offer_named", {car_name}, NoPrice, None, suffix))}
      ELSE IF car_category # None
      THEN IF cars_of_category(car_category) # {}
           THEN {Out([ud EXCEPT !.current_car = car,
                                !.state = "WAITING_FOR_INTENT"],
                     Reply("offer_from_category", {car}, NoPrice, car_category,
                           suffix)) :
                   car \in cars_of_category(car_category)}
           ELSE {Out(ud, Reply("category_empty", {}, NoPrice, car_category, suffix))}
      ELSE generate_or_failure(replica, ud)

process_none_state(replica, ud) ==
  LET car_name == extract_car_name(replica)
      car_category == extract_car_category(replica)
      intent == classify_intent(replica)
      suffix == analyze_sentiment(replica)
  IN  IF car_name # None
      THEN {Out([ud EXCEPT !.current_car = car_name,
                           !.state = "WAITING_FOR_INTENT"],
                Reply("offer_named", {car_name}, NoPrice, None, suffix))}
      ELSE IF car_category # None
      THEN IF cars_of_category(car_category) # {}
           THEN {Out([ud EXCEPT !.current_car = car,
                                !.state = "WAITING_FOR_INTENT"],
                     Reply("offer_from_category", {car}, NoPrice, car_category,
                           suffix)) :
                   car \in cars_of_category(car_category)}
           ELSE {Out(ud, Reply("category_empty", {}, NoPrice, car_category, suffix))}
      ELSE IF intent # None
      THEN get_answer_by_intent(intent, replica, ud)
      ELSE generate_or_failure(replica, ud)

(***************************************************************************)
(* Bot._process_waiting_for_car                                            *)
(***************************************************************************)
\* A slip the properties must notice: the dialogue is dropped when the text
\* resolves no vehicle.
process_waiting_for_car_gives_up(replica, ud) ==
  LET car_name == extract_car_name(replica)
      car_category == extract_car_category(replica)
      suffix == analyze_sentiment(replica)
  IN  IF car_name # None
      THEN {Out([ud EXCEPT !.current_car = car_name,
                           !.state = "WAITING_FOR_INTENT"],
                Reply("offer_named", {car_name}, NoPrice, None, suffix))}
      ELSE IF car_category # None /\ cars_of_category(car_category) # {}
      THEN {Out([ud EXCEPT !.current_car = car,
                           !.state = "WAITING_FOR_INTENT"],
                Reply("offer_from_category", {car}, NoPrice, car_category, suffix)) :
              car \in cars_of_category(car_category)}
      ELSE {Out([ud EXCEPT !.state = "NONE"],
                Reply("ask_car_again", {}, NoPrice, None, suffix))}

process_waiting_for_car(replica, ud) ==
  LET car_name == extract_car_name(replica)
      car_category == extract_car_category(replica)
      suffix == analyze_sentiment(replica)
  IN  IF car_name # None
      THEN {Out([ud EXCEPT !.current_car = car_name,
                           !.state = "WAITING_FOR_INTENT"],
                Reply("offer_named", {car_name}, NoPrice, None, suffix))}
      ELSE IF car_category # None /\ cars_of_category(car_category) # {}
      THEN {Out([ud EXCEPT !.current_car = car,
                           !.state = "WAITING_FOR_INTENT"],
                Reply("offer_from_category", {car}, NoPrice, car_category, suffix)) :
              car \in cars_of_category(car_category)}
      ELSE {Out(ud, Reply("ask_car_again", {}, NoPrice, None, suffix))}

(***************************************************************************)
(* Bot._process_waiting_for_intent                                         *)
(***************************************************************************)
\* The default of user_data.get('current_car', 'машину'): the common noun
\* "a car", which is no key of the catalog.
SomeCar == "mashinu"

\* A slip the properties must notice: the state is not reset after the
\* answer about the vehicle.
process_waiting_for_intent_no_reset(replica, ud) ==
  LET named == extract_car_name(replica)
      found == named # None /\ named \in CarNames
      ud1 == IF found THEN [ud EXCEPT !.current_car = named] ELSE ud
      car_name == IF found THEN named
                  ELSE IF ud.current_car = Missing THEN SomeCar
                  ELSE ud.current_car
      intent == classify_intent(replica)
      suffix == analyze_sentiment(replica)
  IN  IF intent \in CarIntents
      THEN {Out(ud1, get_car_response(intent, car_name, replica))}
      ELSE IF intent = "yes"
      THEN {Raise(ud1, "NameError")}
      ELSE IF intent = "no"
      THEN {Out([ud1 EXCEPT !.current_car = None, !.state = "NONE"],
                Reply("no", {}, NoPrice, None, suffix))}
      ELSE {Out(ud1, Reply("ask_aspect", {car_name} \cap CarNames, NoPrice, None,
                           suffix))}

process_waiting_for_intent(replica, ud) ==
  LET named == extract_car_name(replica)
      found == named # None /\ named \in CarNames
      ud1 == IF found THEN [ud EXCEPT !.current_car = named] ELSE ud
      car_name == IF found THEN named
                  ELSE IF ud.current_car = Missing THEN SomeCar
                  ELSE ud.current_car
      intent == classify_intent(replica)
      suffix == analyze_sentiment(replica)
  IN  IF intent \in CarIntents
      THEN {Out([ud1 EXCEPT !.state = "NONE"],
                get_car_response(intent, car_name, replica))}
      ELSE IF intent = "yes"
      \* `last_intent` is bound neither in the function nor in the module.
      THEN {Raise(ud1, "NameError")}
      ELSE IF intent = "no"
      THEN {Out([ud1 EXCEPT !.current_car = None, !.state = "NONE"],
                Reply("no", {}, NoPrice, None, suffix))}
      ELSE {Out(ud1, Reply("ask_aspect", {car_name} \cap CarNames, NoPrice, None,
                           suffix))}

(***************************************************************************)
(* Bot.process                                                             *)
(***************************************************************************)
\* Lines 419-420: the kind of response reported to Stats, from the value of
\* classify_intent(replica) and the answer.
response_type(classified, answer) ==
  IF classified # None THEN "intent"
  ELSE IF answer.marked THEN "generate"
  ELSE "failure"

\* A finished call: the context, the answer returned (or the exception that
\* left the call) and the kind reported to Stats (None when none was).
Done(ud, answer, kind) ==
  [ud |-> stats_add(ud, kind), answer |-> answer, raised |-> None, kind |-> kind]

Failed(ud, exception) ==
  [ud |-> ud, answer |-> NoAnswer, raised |-> exception, kind |-> None]

dispatch(replica, ud) ==
  LET state == get_state(ud)
  IN  IF state = "WAITING_FOR_CAR" THEN process_waiting_for_car(replica, ud)
      ELSE IF state = "WAITING_FOR_INTENT"
      THEN process_waiting_for_intent(replica, ud)
      ELSE process_none_state(replica, ud)

\* A slip the properties must notice: the price is extracted before the
\* text is judged.
process_not_meaningful_filtered(replica, ud) ==
  IF extract_price(replica) # NoPrice
  THEN {IF o.raised # None THEN Failed(o.ud, o.raised)
        ELSE Done(update_context(o.ud, replica, o.answer, "filter_cars"), o.answer,
                  "intent") :
          o \in handle_filter_cars(extract_price(replica),
                                   extract_car_category(replica), ud)}
  ELSE {Done(update_context(ud, replica, answer, None), answer, "failure") :
          answer \in get_failure_phrase(replica)}

\* Lines 393-397: the text is not meaningful.
process_not_meaningful(replica, ud) ==
  {Done(update_context(ud, replica, answer, None), answer, "failure") :
     answer \in get_failure_phrase(replica)}

\* Lines 401-405: a price was extracted.
process_price(replica, ud) ==
  {IF o.raised # None THEN Failed(o.ud, o.raised)
   ELSE Done(update_context(o.ud, replica, o.answer, "filter_cars"), o.answer,
             "intent") :
     o \in handle_filter_cars(extract_price(replica),
                              extract_car_category(replica), ud)}

\* Lines 407-422: the dispatch on the state, then the context and the stats.
process_by_state(replica, ud) ==
  LET classified == classify_intent(replica)
  IN  {IF o.raised # None THEN Failed(o.ud, o.raised)
       ELSE IF classified = None /\ o.answer = NoAnswer
       \* `'dialogues.txt' in None`
       THEN Failed(update_context(o.ud, replica, o.answer, None), "TypeError")
       ELSE Done(update_context(o.ud, replica, o.answer, None), o.answer,
                 response_type(classified, o.answer)) :
         o \in dispatch(replica, ud)}

\* A slip the properties must notice: the price is looked at only when no
\* dialogue is pending.
process_price_in_none_only(replica, ud) ==
  IF ~is_meaningful_text(replica) THEN process_not_meaningful(replica, ud)
  ELSE IF extract_price(replica) # NoPrice /\ get_state(ud) = "NONE"
  THEN process_price(replica, ud)
  ELSE process_by_state(replica, ud)

process(replica, ud) ==
  IF ~is_meaningful_text(replica) THEN process_not_meaningful(replica, ud)
  ELSE IF extract_price(replica) # NoPrice THEN process_price(replica, ud)
  ELSE process_by_state(replica, ud)

(***************************************************************************)
(* The session and the Telegram handlers                                   *)
(***************************************************************************)
\* The turns Bot.process has completed in this session.
turns_done(ud) ==
  ud.stats["intent"] + ud.stats["generate"] + ud.stats["failure"]

\* The call of Bot.process made by the handler that ran last, if it made
\* one: the text, the context fields as they were before the call (and
\* whether the reply before it held an upsell mention), the answer returned,
\* the exception raised, the kind given to Stats.
Before(ud) ==
  [state |-> ud.state, current_car |-> ud.current_car,
   last_intent |-> ud.last_intent, upsell |-> has_upsell(ud.last_bot_response)]

NoReplica == Replica(FALSE, None, None, NoPrice, "hello", NoRatio, "neutral", None)

\* The handler that ran last did not call Bot.process.
NoTurn ==
  [called |-> FALSE, replica |-> NoReplica,
   before |-> [state |-> Missing, current_car |-> Missing, last_intent |-> None,
               upsell |-> FALSE],
   answer |-> NoAnswer, raised |-> None, kind |-> None]

Turn(replica, ud, r) ==
  [called |-> TRUE, replica |-> replica, before |-> Before(ud),
   answer |-> r.answer, raised |-> r.raised, kind |-> r.kind]

\* The coroutines that handle the updates of one participant.
Tasks == {1, 2}

\* No update is being handled.  running: the coroutine that holds the event
\* loop (0: none); writing: the coroutine that is between the first and the
\* last write of a Bot.process call (0: none); pc: where each coroutine
\* stands; kind: the kind it will report to Stats; actor, wrote: who made
\* the last step and whether that step wrote to context.user_data.
IdleLoop ==
  [running |-> 0, writing |-> 0, pc |-> [t \in Tasks |-> "idle"],
   kind |-> [t \in Tasks |-> None], actor |-> 0, wrote |-> FALSE]

\* A fresh session: context.user_data is an empty dictionary.
Init ==
  /\ user_data =
       [state |-> Missing, current_car |-> Missing, last_bot_response |-> NoAnswer,
        last_intent |-> None, history |-> <<>>,
        stats |-> [k \in ResponseType |-> 0]]
  /\ turn = NoTurn
  /\ loop = IdleLoop

\* handle_message: a text message.
HandleMessage ==
  \/ \E user_text \in Replicas :
       \E r \in process(user_text, user_data) :
            /\ turns_done(r.ud) <= MaxTurns
            /\ user_data' = r.ud
            /\ turn' = Turn(user_text, user_data, r)
            /\ UNCHANGED loop
  \/ /\ user_data' =
          [user_data EXCEPT !.last_bot_response =
                              Reply("send_text", {}, NoPrice, None, "neutral")]
     /\ turn' = NoTurn
     /\ UNCHANGED loop

\* handle_voice: a voice message.  voice_to_text yields a text or None; any
\* exception (of the download, of Bot.process, of sending the reply) is
\* caught and answered with the error phrase.
HandleVoice ==
  \/ \E text \in Replicas :
       \E r \in process(text, user_data) :
            /\ turns_done(r.ud) <= MaxTurns
            /\ \/ r.raised = None /\ user_data' = r.ud
               \/ user_data' =
                    [r.ud EXCEPT !.last_bot_response =
                                   Reply("voice_error", {}, NoPrice, None, "neutral")]
            /\ turn' = Turn(text, user_data, r)
            /\ UNCHANGED loop
  \/ /\ \E kind \in {"voice_unrecognized", "voice_error"} :
          user_data' =
            [user_data EXCEPT !.last_bot_response =
                                Reply(kind, {}, NoPrice, None, "neutral")]
     /\ turn' = NoTurn
     /\ UNCHANGED loop

\* /start
StartCommand ==
  /\ user_data' =
       [user_data EXCEPT !.last_bot_response =
                           Reply("start_message", {}, NoPrice, None, "neutral"),
                         !.last_intent = "hello"]
  /\ turn' = NoTurn
  /\ UNCHANGED loop

\* /help
HelpCommand ==
  /\ user_data' =
       [user_data EXCEPT !.last_bot_response =
                           Reply("help_message", {}, NoPrice, None, "neutral"),
                         !.last_intent = "help"]
  /\ turn' = NoTurn
  /\ UNCHANGED loop

\* /stats: reads the counters, writes nothing.
StatsCommand ==
  /\ user_data' = user_data
  /\ turn' = NoTurn
  /\ UNCHANGED loop

Next ==
  \/ HandleMessage
  \/ HandleVoice
  \/ StartCommand
  \/ HelpCommand
  \/ StatsCommand

Spec == Init /\ [][Next]_vars

\* handle_message with the texts of the context dialogues.
ContextMessage ==
  \E user_text \in ContextReplicas :
    \E r \in process(user_text, user_data) :
         /\ turns_done(r.ud) <= MaxContextTurns
         /\ user_data' = r.ud
         /\ turn' = Turn(user_text, user_data, r)
         /\ UNCHANGED loop

ContextNext ==
  \/ ContextMessage
  \/ StartCommand
  \/ HelpCommand
  \/ StatsCommand

\* Longer dialogues over fewer texts: the sessions in which a vehicle is
\* looked up in the context.
ContextSpec == Init /\ [][ContextNext]_vars

(***************************************************************************)
(* The handlers as coroutines                                              *)
(***************************************************************************)
\* The texts of the interleaved dialogues.
AsyncReplicas ==
  {Replica(TRUE, None, None, NoPrice, k, Ratio(k, 100), "neutral", None) :
     k \in {"car_recommendation", "car_price", "yes"}}
  \cup {Replica(FALSE, None, None, NoPrice, "hello", NoRatio, "neutral", None),
        Replica(TRUE, None, None, 1500000, "filter_cars", Ratio("filter_cars", 100),
                "neutral", None)}

\* The handlers run_bot registers.
Handlers ==
  {"start_command", "help_command", "stats_command", "handle_message",
   "handle_voice"}

\* Coroutine t may make a step: the event loop is free or t holds it.
CanRun(t) == loop.running \in {0, t}

\* A step of coroutine t: its new position, who holds the event loop after
\* it (0 when t awaits or returns) and whether it wrote to the context.
Step(t, pc, running, wrote) ==
  [loop EXCEPT !.pc[t] = pc, !.running = running, !.actor = t, !.wrote = wrote]

\* A slip the properties must notice: Bot.process gives the event loop away
\* (an await) between its writes.
process_awaits(t) == 0

\* Bot.process is a plain function called without await: the coroutine that
\* calls it holds the event loop until it returns.
process_running(t) == t

\* The Application starts the handler of an update as a coroutine.
Receive(t) ==
  /\ loop.pc[t] = "idle"
  /\ loop.running = 0
  /\ \E handler \in Handlers : loop' = Step(t, handler, 0, FALSE)
  /\ UNCHANGED <<user_data, turn>>

\* start_command, help_command up to `await update.message.reply_text`.
Command(t) ==
  /\ loop.pc[t] \in {"start_command", "help_command"}
  /\ CanRun(t)
  /\ user_data' =
       IF loop.pc[t] = "start_command"
       THEN [user_data EXCEPT !.last_bot_response =
                                Reply("start_message", {}, NoPrice, None, "neutral"),
                              !.last_intent = "hello"]
       ELSE [user_data EXCEPT !.last_bot_response =
                                Reply("help_message", {}, NoPrice, None, "neutral"),
                              !.last_intent = "help"]
  /\ loop' = Step(t, "reply", 0, TRUE)
  /\ UNCHANGED turn

\* stats_command up to its await: reads the counters.
Stats(t) ==
  /\ loop.pc[t] = "stats_command"
  /\ CanRun(t)
  /\ loop' = Step(t, "reply", 0, FALSE)
  /\ UNCHANGED <<user_data, turn>>

\* handle_message for an update without text, up to its await.
NoText(t) ==
  /\ loop.pc[t] = "handle_message"
  /\ CanRun(t)
  /\ user_data' =
       [user_data EXCEPT !.last_bot_response =
                           Reply("send_text", {}, NoPrice, None, "neutral")]
  /\ loop' = Step(t, "reply", 0, TRUE)
  /\ UNCHANGED turn

\* handle_voice up to the end of its awaits get_file and download_to_drive,
\* which return or raise; voice_to_text then yields a text or None.
VoiceFetch(t) ==
  /\ loop.pc[t] = "handle_voice"
  /\ CanRun(t)
  /\ \E pc \in {"voice_text", "voice_none", "voice_except"} :
       loop' = Step(t, pc, 0, FALSE)
  /\ UNCHANGED <<user_data, turn>>

\* handle_voice, `else` of `if text`, up to its await.
VoiceNone(t) ==
  /\ loop.pc[t] = "voice_none"
  /\ CanRun(t)
  /\ user_data' =
       [user_data EXCEPT !.last_bot_response =
                           Reply("voice_unrecognized", {}, NoPrice, None, "neutral")]
  /\ loop' = Step(t, "voice_reply", 0, TRUE)
  /\ UNCHANGED turn

\* Bot.process called by handle_message or handle_voice, up to and without
\* its last write, stats.add: the writes of the state handler and of
\* _update_context.  A call that raises leaves handle_message, and takes
\* handle_voice to its except clause.
ProcessFirst(t) ==
  /\ loop.pc[t] \in {"handle_message", "voice_text"}
  /\ CanRun(t)
  /\ \E text \in AsyncReplicas :
       \E r \in process(text, user_data) :
         LET voice == loop.pc[t] = "voice_text"
         IN  /\ turns_done(r.ud) <= MaxAsyncTurns
             /\ IF r.raised = None
                THEN /\ user_data' = [r.ud EXCEPT !.stats = user_data.stats]
                     /\ loop' =
                          [Step(t, IF voice THEN "voice_process" ELSE "process",
                                process_running(t), TRUE)
                             EXCEPT !.writing = t, !.kind[t] = r.kind]
                ELSE /\ user_data' = r.ud
                     /\ loop' =
                          IF voice THEN Step(t, "voice_except", t, r.ud # user_data)
                          ELSE Step(t, "idle", 0, r.ud # user_data)
  /\ UNCHANGED turn

\* The last write of Bot.process, stats.add, and the handler up to its
\* await of the reply.
ProcessLast(t) ==
  /\ loop.pc[t] \in {"process", "voice_process"}
  /\ CanRun(t)
  /\ user_data' = stats_add(user_data, loop.kind[t])
  /\ loop' =
       [Step(t, IF loop.pc[t] = "process" THEN "reply" ELSE "voice_reply", 0, TRUE)
          EXCEPT !.writing = 0, !.kind[t] = None]
  /\ UNCHANGED turn

\* The reply is sent and the handler returns; in handle_voice the sending
\* may raise inside the try.
Replied(t) ==
  /\ loop.pc[t] \in {"reply", "voice_reply"}
  /\ CanRun(t)
  /\ \/ loop' = Step(t, "idle", 0, FALSE)
     \/ loop.pc[t] = "voice_reply" /\ loop' = Step(t, "voice_except", t, FALSE)
  /\ UNCHANGED <<user_data, turn>>

\* handle_voice, except clause, up to its await.
VoiceExcept(t) ==
  /\ loop.pc[t] = "voice_except"
  /\ CanRun(t)
  /\ user_data' =
       [user_data EXCEPT !.last_bot_response =
                           Reply("voice_error", {}, NoPrice, None, "neutral")]
  /\ loop' = Step(t, "reply", 0, TRUE)
  /\ UNCHANGED turn

AsyncNext ==
  \E t \in Tasks :
    \/ Receive(t)
    \/ Command(t)
    \/ Stats(t)
    \/ NoText(t)
    \/ VoiceFetch(t)
    \/ VoiceNone(t)
    \/ ProcessFirst(t)
    \/ ProcessLast(t)
    \/ Replied(t)
    \/ VoiceExcept(t)

AsyncSpec == Init /\ [][AsyncNext]_vars

(***************************************************************************)
(* Properties                                                              *)
(***************************************************************************)
\* The turn reached the dispatch on the dialogue state: the text is
\* meaningful and carries no price.
Dispatched == turn.called /\ turn.replica.meaningful /\ turn.replica.price = NoPrice

\* The state the dispatch of the last call saw.
StateBefore == IF turn.before.state = Missing THEN "NONE" ELSE turn.before.state

\* C1: Bot.process is total: whatever the session context and the
\* utterance, the call returns a non-empty reply and raises nothing.
C1_ProcessTotal ==
  turn.called => (turn.raised = None /\ turn.answer # NoAnswer)

\* C2: a price extracted from a meaningful utterance preempts the dispatch
\* on the state.  In every state the reply is one the vehicle filter yields
\* for that price and the category of the utterance, the state handlers do
\* not run (state and current vehicle stay as they were), the turn is
\* counted as INTENT and last_intent becomes filter_cars.
C2_PricePreempts ==
  [][(turn'.called /\ turn'.replica.meaningful /\ turn'.replica.price # NoPrice)
       => /\ turn'.raised = None
          /\ \E o \in handle_filter_cars(turn'.replica.price,
                                         turn'.replica.car_category, user_data) :
               turn'.answer = o.answer
          /\ turn'.answer.kind \in {"filter_list", "filter_none"}
          /\ user_data'.state = get_state(user_data)
          /\ user_data'.current_car = get_current_car(user_data)
          /\ turn'.kind = "intent"
          /\ user_data'.stats =
               [user_data.stats EXCEPT !["intent"] = @ + 1]
          /\ user_data'.last_intent = "filter_cars"]_vars

\* C2 happens: a price turn in state WAITING_FOR_INTENT answered by the filter.
C2_Witness ==
  /\ turn.called /\ turn.replica.meaningful /\ turn.replica.price # NoPrice
  /\ turn.before.state = "WAITING_FOR_INTENT"
  /\ turn.answer.kind = "filter_list"
  /\ user_data.state = "WAITING_FOR_INTENT"
  /\ user_data.last_intent = "filter_cars"

\* The scenario of C3: the first turn of an empty session, with a text that
\* carries the price ceiling 1500000 and neither a vehicle name nor a
\* category; the catalog holds A (1000000) and B (2000000).
C3_FirstTurnUpTo1500000 ==
  /\ turn.called
  /\ turn.before = [state |-> Missing, current_car |-> Missing, last_intent |-> None,
                    upsell |-> FALSE]
  /\ turn.replica.meaningful
  /\ turn.replica.price = 1500000
  /\ turn.replica.car_name = None
  /\ turn.replica.car_category = None

\* C3 as claimed: in the scenario the filter result is exactly A, and after
\* the turn the state is WAITING_FOR_INTENT and the current vehicle is A.
C3_AsClaimed ==
  C3_FirstTurnUpTo1500000
    => /\ turn.answer.cars = {"A"}
       /\ user_data.state = "WAITING_FOR_INTENT"
       /\ user_data.current_car = "A"

\* C3 as amended: in the scenario the reply lists exactly A, and after the
\* turn the state is NONE and no current vehicle is set: a filter with a
\* price only lists the matches.
C3_ListsExactlyA ==
  C3_FirstTurnUpTo1500000
    => /\ turn.raised = None
       /\ turn.answer.kind = "filter_list"
       /\ turn.answer.cars = {"A"}
       /\ user_data.state = "NONE"
       /\ user_data.current_car = None

\* C3 happens: the scenario's turn, answered with the list {A}.
C3_Witness ==
  C3_FirstTurnUpTo1500000 /\ turn.answer.cars = {"A"} /\ user_data.state = "NONE"

\* The case of C4: the turn is dispatched in state WAITING_FOR_INTENT with a
\* catalog vehicle as current vehicle, the text names no other vehicle and
\* is classified as a vehicle-specific intent.
C4_VehicleQuestion ==
  /\ Dispatched
  /\ turn.before.state = "WAITING_FOR_INTENT"
  /\ turn.before.current_car \in CarNames
  /\ turn.replica.car_name \in {None, turn.before.current_car}
  /\ classify_intent(turn.replica) \in CarIntents

\* C4: in state WAITING_FOR_INTENT with current vehicle A, a turn whose
\* text names no other vehicle and is classified as a vehicle-specific
\* intent (price, availability, info, test-drive) is answered about A, with
\* the phrase of that intent filled from A's catalog record, and leaves the
\* state NONE (and A the current vehicle).
C4_AnswersAboutCurrentCar ==
  C4_VehicleQuestion
    => /\ turn.raised = None
       /\ turn.answer.kind = classify_intent(turn.replica)
       /\ turn.answer.cars = {turn.before.current_car}
       /\ turn.answer.price = CONFIG_cars[turn.before.current_car].price
       /\ user_data.state = "NONE"
       /\ user_data.current_car = turn.before.current_car

\* C4 happens: the price of A asked and answered in state WAITING_FOR_INTENT.
C4_Witness ==
  /\ C4_VehicleQuestion
  /\ turn.before.current_car = "A"
  /\ turn.replica.car_name = None
  /\ turn.answer.kind = "car_price"
  /\ turn.answer.price = 1000000
  /\ user_data.state = "NONE"

\* user_data.get('current_car') before the last call.
CarBefore ==
  IF turn.before.current_car = Missing THEN None ELSE turn.before.current_car

\* C5: with last_intent = car_types, in whichever dialogue state, a turn
\* whose text is classified as the affirmative intent and carries no
\* vehicle name, category or price is answered with two sampled catalog
\* vehicles and leaves the current vehicle unchanged.
C5_YesAfterCarTypes ==
  (/\ Dispatched
   /\ turn.before.last_intent = "car_types"
   /\ classify_intent(turn.replica) = "yes"
   /\ turn.replica.car_name = None
   /\ turn.replica.car_category = None)
    => /\ turn.raised = None
       /\ turn.answer.kind = "yes_car_types"
       /\ turn.answer.cars \subseteq CarNames
       /\ Cardinality(turn.answer.cars) = 2
       /\ user_data.current_car = CarBefore

\* The intent of the last turn was determined and used for the reply: in
\* state NONE the text named no vehicle and no category and was classified;
\* in state WAITING_FOR_INTENT it was classified as a vehicle-specific intent.
IntentUsed ==
  /\ Dispatched
  /\ turn.raised = None
  /\ \/ /\ StateBefore = "NONE"
        /\ turn.replica.car_name = None
        /\ turn.replica.car_category = None
        /\ classify_intent(turn.replica) # None
     \/ /\ StateBefore = "WAITING_FOR_INTENT"
        /\ classify_intent(turn.replica) \in CarIntents

\* C6: after every turn in which an intent was determined and used for the
\* reply, last_intent is that intent.
C6_LastIntentRecorded ==
  IntentUsed => user_data.last_intent = classify_intent(turn.replica)

\* C7: the kind counted for a turn is how the turn was resolved: a reply of
\* the retrieval fallback counts as generate (RETRIEVED), the generic
\* failure phrase as failure, and only a turn answered through a classified
\* intent or through the price filter counts as intent.
C7_KindMatchesResolution ==
  (turn.called /\ turn.raised = None)
    => /\ turn.answer.kind = "dialogue" => turn.kind = "generate"
       /\ turn.answer.kind = "failure" => turn.kind = "failure"
       /\ turn.kind = "intent"
            => \/ turn.replica.meaningful /\ turn.replica.price # NoPrice
               \/ IntentUsed
               \/ /\ Dispatched
                  /\ StateBefore = "WAITING_FOR_INTENT"
                  /\ classify_intent(turn.replica) = "no"

\* C8: the history never holds more than history_limit entries, and every
\* turn leaves the raw utterance as its newest entry.
C8_HistoryKeepsEveryTurn ==
  /\ Len(user_data.history) <= HistoryLimit
  /\ turn.called
       => /\ Len(user_data.history) >= 1
          /\ user_data.history[Len(user_data.history)] = turn.replica

C10_StateValid ==
  /\ user_data.state \in BotState \cup {Missing}
  /\ user_data.state = Missing => turns_done(user_data) = 0
  /\ (turn.called /\ turn.raised = None) => user_data.state \in BotState
  /\ (Dispatched /\ turn.before.state = Missing)
       => /\ turn.raised = None
          /\ turn.answer.kind \notin {"ask_car_again", "ask_aspect", "no_such_car"}
          /\ turn.replica.car_name # None
               => /\ turn.answer.kind = "offer_named"
                  /\ user_data.state = "WAITING_FOR_INTENT"

\* C10 happens: the first turn of a fresh session moved it to WAITING_FOR_CAR.
C10_Witness ==
  /\ Dispatched
  /\ turn.before.state = Missing
  /\ user_data.state = "WAITING_FOR_CAR"

\* The replies the vehicle filter makes from its result list.
FilterAnswers == {"filter_list", "recommend"}

C12_NotMeaningfulFails ==
  [][(turn'.called /\ ~turn'.replica.meaningful)
       => /\ turn'.raised = None
          /\ turn'.answer \in get_failure_phrase(turn'.replica)
          /\ turn'.kind = "failure"
          /\ user_data'.stats = [user_data.stats EXCEPT !["failure"] = @ + 1]
          /\ user_data'.state = get_state(user_data)
          /\ user_data'.current_car = get_current_car(user_data)
          /\ user_data'.last_intent = user_data.last_intent]_vars

\* C12 happens: a text that is not meaningful but carries a price, a vehicle
\* name and the words of a price question, sent while a vehicle is awaited.
C12_Witness ==
  /\ turn.called
  /\ ~turn.replica.meaningful
  /\ turn.replica.price # NoPrice
  /\ turn.replica.car_name = "A"
  /\ turn.before.state = "WAITING_FOR_CAR"
  /\ turn.answer.kind = "failure"
  /\ user_data.state = "WAITING_FOR_CAR"
  /\ user_data.stats["failure"] = 1

\* C13: every call of Bot.process adds one to exactly one of the three
\* counters of the session, and no step of any handler lowers a counter.
C13_OneCounterPerTurn ==
  [][/\ \A k \in ResponseType : user_data'.stats[k] >= user_data.stats[k]
     /\ turn'.called
          => \E k \in ResponseType :
               user_data'.stats = [user_data.stats EXCEPT ![k] = @ + 1]]_vars

\* The case of C14, for the step that makes the turn: the text is
\* dispatched on the state, names no vehicle and is worded as a
\* vehicle-specific question; no current vehicle is set and the context
\* resolves none.
C14_NoVehicleResolved ==
  /\ turn'.called
  /\ turn'.replica.meaningful
  /\ turn'.replica.price = NoPrice
  /\ turn'.replica.car_name = None
  /\ classify_intent(turn'.replica) \in CarIntents
  /\ get_current_car(user_data) = None
  /\ find_car_by_context(turn'.replica, user_data) = {None}

\* The replies that ask the user which vehicle is meant.
ClarificationPrompts == {"ask_car", "ask_car_again"}

EqualsExampleOf(k) ==
  /\ turn.called
  /\ lemmatize_phrase(turn.replica)
  /\ k \in DOMAIN turn.replica.ratios
  /\ turn.replica.ratios[k] = 100

\* C15: a text whose lemmatized form equals a lemmatized example phrase of
\* an intent is classified as that intent: the match reaches the threshold,
\* and the intent of the example is preferred to the prediction of the
\* statistical model and to the intents of less similar examples.
C15_ExampleWins ==
  \A k \in Intent :
    EqualsExampleOf(k)
      => /\ turn.replica.ratios[k] >= IntentScore
         /\ classify_intent(turn.replica) = k

\* C15 happens: a text equal to an example of car_price and close to an
\* example of hello, predicted as bye by the model, is answered in state
\* NONE as a price question.
C15_Witness ==
  /\ EqualsExampleOf("car_price")
  /\ turn.replica.predicted = "bye"
  /\ "hello" \in DOMAIN turn.replica.ratios
  /\ Dispatched
  /\ StateBefore = "NONE"
  /\ turn.answer.kind = "ask_car"

\* C16: in state WAITING_FOR_CAR a meaningful text without a price that
\* names a vehicle, or carries a category that has a catalog vehicle, makes
\* that vehicle (a vehicle of that category) the current vehicle and moves
\* the state to WAITING_FOR_INTENT; any other such text is answered with
\* the re-prompt and leaves state and current vehicle as they were; no step
\* takes the state from WAITING_FOR_CAR to NONE.
C16_WaitingForCar ==
  [][user_data.state = "WAITING_FOR_CAR"
       => /\ user_data'.state \in {"WAITING_FOR_CAR", "WAITING_FOR_INTENT"}
          /\ (turn'.called /\ turn'.replica.meaningful /\ turn'.replica.price = NoPrice)
               => LET car_name == turn'.replica.car_name
                      suitable_cars == cars_of_category(turn'.replica.car_category)
                  IN  /\ turn'.raised = None
                      /\ IF car_name # None \/ suitable_cars # {}
                         THEN /\ user_data'.state = "WAITING_FOR_INTENT"
                              /\ user_data'.current_car \in CarNames
                              /\ car_name # None => user_data'.current_car = car_name
                              /\ car_name = None => user_data'.current_car \in suitable_cars
                              /\ turn'.answer.cars = {user_data'.current_car}
                         ELSE /\ turn'.answer.kind = "ask_car_again"
                              /\ user_data'.state = "WAITING_FOR_CAR"
                              /\ user_data'.current_car = user_data.current_car]_vars

\* C16 happens: the vehicle awaited is given by its category.
C16_Witness ==
  /\ Dispatched
  /\ turn.before.state = "WAITING_FOR_CAR"
  /\ turn.replica.car_name = None
  /\ turn.replica.car_category = "sedan"
  /\ turn.answer.kind = "offer_from_category"
  /\ user_data.current_car = "A"
  /\ user_data.state = "WAITING_FOR_INTENT"

\* The replies that continue the topic of last_intent after an affirmative.
YesAnswers ==
  {"yes_hello", "yes_price", "yes_name_car", "yes_car_types", "yes_offtopic",
   "yes_other"}

\* C17: a turn dispatched in state WAITING_FOR_INTENT returns a reply; when
\* the text is classified as the negative intent the current vehicle is
\* cleared and the state is NONE; when it is classified as the affirmative
\* intent the reply continues the topic of last_intent; when it is
\* classified as neither of these nor as a vehicle-specific intent, or not
\* at all, the reply is the re-prompt about the vehicle and the state stays
\* WAITING_FOR_INTENT.
C17_WaitingForIntent ==
  (Dispatched /\ turn.before.state = "WAITING_FOR_INTENT")
    => LET intent == classify_intent(turn.replica)
       IN  /\ turn.raised = None
           /\ intent = "no"
                => /\ user_data.current_car = None
                   /\ user_data.state = "NONE"
           /\ intent = "yes" => turn.answer.kind \in YesAnswers
           /\ intent \notin CarIntents \cup {"yes", "no"}
                => /\ turn.answer.kind = "ask_aspect"
                   /\ user_data.state = "WAITING_FOR_INTENT"

\* C17 without its affirmative part, which is what the code does.
C17_NoAndOther ==
  (Dispatched /\ turn.before.state = "WAITING_FOR_INTENT"
     /\ classify_intent(turn.replica) # "yes")
    => LET intent == classify_intent(turn.replica)
       IN  /\ turn.raised = None
           /\ intent = "no"
                => /\ user_data.current_car = None
                   /\ user_data.state = "NONE"
           /\ intent \notin CarIntents \cup {"yes", "no"}
                => /\ turn.answer.kind = "ask_aspect"
                   /\ user_data.state = "WAITING_FOR_INTENT"

\* The replies Bot.get_answer_by_intent makes.
IntentAnswers ==
  Intent \cup YesAnswers \cup FilterAnswers
    \cup {"offer_from_context", "ask_car", "filter_ask", "filter_none"}

\* C18: a turn dispatched in state NONE is answered by the first of five
\* steps that yields a reply, and by that step alone: the vehicle name of
\* the text (the vehicle becomes the current vehicle and the state
\* WAITING_FOR_INTENT, whatever intent the text is worded as), else its
\* category, else its classified intent, else the retrieval from the
\* dialogue corpus, else the generic failure phrase.
C18_NoneStateOrder ==
  (Dispatched /\ StateBefore = "NONE")
    => LET car_name == turn.replica.car_name
           car_category == turn.replica.car_category
           intent == classify_intent(turn.replica)
       IN  /\ turn.raised = None
           /\ IF car_name # None
              THEN /\ turn.answer.kind = "offer_named"
                   /\ turn.answer.cars = {car_name}
                   /\ user_data.current_car = car_name
                   /\ user_data.state = "WAITING_FOR_INTENT"
              ELSE IF car_category # None
              THEN IF cars_of_category(car_category) # {}
                   THEN /\ turn.answer.kind = "offer_from_category"
                        /\ user_data.current_car \in cars_of_category(car_category)
                        /\ user_data.state = "WAITING_FOR_INTENT"
                   ELSE /\ turn.answer.kind = "category_empty"
                        /\ user_data.state = "NONE"
              ELSE IF intent # None
              THEN turn.answer.kind \in IntentAnswers
              ELSE IF turn.replica.dialogue # None
              THEN turn.answer.kind = "dialogue"
              ELSE turn.answer.kind = "failure"

\* C18 happens: a price question that names vehicle A, in state NONE, is
\* answered by the name step.
C18_Witness ==
  /\ Dispatched
  /\ StateBefore = "NONE"
  /\ turn.replica.car_name = "A"
  /\ classify_intent(turn.replica) = "car_price"
  /\ turn.answer.kind = "offer_named"
  /\ user_data.current_car = "A"
  /\ user_data.state = "WAITING_FOR_INTENT"

\* The step makes a turn that asks the context for the vehicle: it is
\* dispatched in state NONE with no current vehicle, the text names no
\* vehicle and is classified as a vehicle-specific intent.
C19_LooksUpContext ==
  /\ turn'.called
  /\ turn'.replica.meaningful
  /\ turn'.replica.price = NoPrice
  /\ get_state(user_data) = "NONE"
  /\ get_current_car(user_data) = None
  /\ turn'.replica.car_name = None
  /\ classify_intent(turn'.replica) \in CarIntents

\* The vehicles an utterance of the history stands for: the one it names,
\* else those of its category.
CarsOf(hist) ==
  IF hist.car_name # None THEN {hist.car_name}
  ELSE cars_of_category(hist.car_category)

\* The vehicles of the most recent utterance of the history that stands for
\* any ({None} if there is none).
MostRecentCars(history) ==
  LET resolvable == {i \in 1..Len(history) : CarsOf(history[i]) # {}}
  IN  IF resolvable = {} THEN {None}
      ELSE CarsOf(history[CHOOSE i \in resolvable : \A j \in resolvable : j <= i])

C19_UpsellFirst ==
  /\ Dispatched
  /\ turn.before.last_intent = "car_types"
  /\ turn.before.upsell
  /\ turn.answer.kind = "offer_from_context"

\* C20: while a coroutine is between the first and the last write of its
\* Bot.process call, every write to the context is its own: no text turn,
\* voice turn or command of the participant writes in between.
C20_SingleWriter ==
  [][(loop.writing # 0 /\ loop'.wrote) => loop'.actor = loop.writing]_vars

\* C20 happens: coroutine 1 is between the writes of Bot.process while a
\* voice handler, back from its awaits, is ready to call Bot.process.
C20_Witness ==
  /\ loop.writing = 1
  /\ loop.pc[1] = "process"
  /\ loop.pc[2] = "voice_text"

\* C21: in state WAITING_FOR_INTENT a current vehicle is set.  Every step
\* that takes the state to WAITING_FOR_INTENT leaves a catalog vehicle as
\* current vehicle, and every step that clears the current vehicle leaves
\* the state NONE.
C21_WaitingForIntentHasCar ==
  [][/\ user_data'.state = "WAITING_FOR_INTENT"
          => user_data'.current_car \in CarNames
     /\ (get_current_car(user_data) # None /\ user_data'.current_car = None)
          => user_data'.state = "NONE"]_vars

\* C21 happens: a recommendation took the session to WAITING_FOR_INTENT
\* with the recommended vehicle as current vehicle.
C21_Witness ==
  /\ turn.called
  /\ StateBefore = "NONE"
  /\ turn.answer.kind = "recommend"
  /\ user_data.state = "WAITING_FOR_INTENT"
  /\ turn.answer.cars = {user_data.current_car}

\* The current vehicle is also cleared by a step that does not write the
\* state: the answer to car_types, given in state NONE only.
C21_ClearedByCarTypes ==
  /\ turn.called
  /\ turn.answer.kind = "car_types"
  /\ turn.before.current_car \in CarNames
  /\ user_data.current_car = None
  /\ user_data.state = "NONE"

\* C22: in state WAITING_FOR_CAR no current vehicle is set.  The state is
\* entered only by the question which vehicle is meant, asked when there is
\* no current vehicle, and every step that sets a current vehicle in state
\* WAITING_FOR_CAR leaves that state.
C22_WaitingForCarHasNoCar ==
  [][/\ user_data'.state = "WAITING_FOR_CAR" => user_data'.current_car = None
     /\ (user_data.state # "WAITING_FOR_CAR" /\ user_data'.state = "WAITING_FOR_CAR")
          => /\ get_current_car(user_data) = None
             /\ turn'.called
             /\ turn'.answer.kind = "ask_car"
     /\ (user_data.state = "WAITING_FOR_CAR" /\ user_data'.current_car # None)
          => user_data'.state = "WAITING_FOR_INTENT"]_vars

\* C22 happens: a text with a price, sent while a vehicle is awaited, is
\* answered with the list of matches and the session keeps waiting, with no
\* current vehicle.
C22_Witness ==
  /\ turn.called
  /\ turn.before.state = "WAITING_FOR_CAR"
  /\ turn.replica.price # NoPrice
  /\ turn.answer.kind = "filter_list"
  /\ user_data.state = "WAITING_FOR_CAR"
  /\ user_data.current_car = None

\* C23: a turn whose text is not meaningful leaves state, current vehicle
\* and last_intent as they read before the turn; of the whole session it
\* changes only the history, which gains the text, the last reply and the
\* failure counter, which grows by one.
C23_NotMeaningfulFrame ==
  [][(turn'.called /\ ~turn'.replica.meaningful)
       => user_data' =
            [user_data EXCEPT
               !.state = get_state(user_data),
               !.current_car = get_current_car(user_data),
               !.history = last_items(Append(@, turn'.replica), HistoryLimit),
               !.last_bot_response = user_data'.last_bot_response,
               !.stats["failure"] = @ + 1]]_vars

\* C23 happens: a text that is not meaningful, sent while the session waits
\* for an intent about a current vehicle and remembers the last intent.
C23_Witness ==
  /\ turn.called
  /\ ~turn.replica.meaningful
  /\ turn.before.state = "WAITING_FOR_INTENT"
  /\ turn.before.current_car \in CarNames
  /\ turn.before.last_intent # None
  /\ user_data.state = "WAITING_FOR_INTENT"
  /\ user_data.current_car = turn.before.current_car
  /\ user_data.last_intent = turn.before.last_intent
  /\ user_data.history = <<turn.replica>>
  /\ user_data.stats["failure"] = 1

\* The last call was dispatched in state NONE with a current vehicle, its
\* text names no vehicle and no category and is classified as one of the
\* vehicle-specific intents.
C24_RetainedCarAsked ==
  /\ Dispatched
  /\ StateBefore = "NONE"
  /\ CarBefore \in CarNames
  /\ turn.replica.car_name = None
  /\ turn.replica.car_category = None
  /\ classify_intent(turn.replica) \in CarIntents

\* C24: in state NONE with a current vehicle, a turn whose text names no
\* vehicle and no category and is classified as a vehicle-specific intent is
\* answered about the current vehicle, with no question which vehicle is
\* meant, and state and current vehicle stay as they were.
C24_AnswersAboutRetainedCar ==
  C24_RetainedCarAsked
    => /\ turn.raised = None
       /\ turn.answer = get_car_response(classify_intent(turn.replica), CarBefore,
                                         turn.replica)
       /\ turn.answer.kind \notin ClarificationPrompts
       /\ user_data.state = "NONE"
       /\ user_data.current_car = CarBefore

\* C24 happens: a price question about the vehicle an earlier turn left as
\* current vehicle in state NONE.
C24_Witness ==
  /\ C24_RetainedCarAsked
  /\ turn.answer.kind = "car_price"
  /\ turn.answer.cars = {user_data.current_car}
  /\ turn.answer.price = CONFIG_cars[user_data.current_car].price
  /\ user_data.state = "NONE"

\* The same after a vehicle question was answered in WAITING_FOR_INTENT: the
\* vehicle was named, asked about, and is asked about again.
C24_AfterWaitingForIntent ==
  /\ C24_Witness
  /\ user_data.stats["intent"] = 3

====
